---- MODULE Spec2Model ----
(***************************************************************************)
(* Job orchestration and progress engine of the Presentation Understanding *)
(* Engine: the JobStore and JobManager of app/services/job_manager.py and  *)
(* the per-job pipeline of app/services/async_processor.py.                *)
(*                                                                         *)
(* Scheduling.  Every caller of the JobManager is a coroutine of one       *)
(* asyncio event loop (the async endpoints of app/api and the background   *)
(* task run_processing_job), and the JobManager's methods are plain        *)
(* functions: a coroutine keeps the loop from one await to the next.  A    *)
(* pipeline position is therefore either an await point, where any other   *)
(* handler may run, or a synchronous position, where only that pipeline    *)
(* moves.  Each JobManager call of the pipeline is a step of its own, so   *)
(* every value it stores is a state of the model.                          *)
(*                                                                         *)
(* Broadcasts.  Every mutating method but cancel_job ends with             *)
(* asyncio.create_task(self._notify_...): the task joins the loop's ready  *)
(* queue, which is first-in first-out, and runs its first step once the    *)
(* coroutine that created it has reached its next await, before any        *)
(* handler that becomes ready later.  A broadcast task reads the callback  *)
(* list and the job record when it starts, and is suspended for as long as *)
(* a callback it awaits is.                                                *)
(*                                                                         *)
(* Left out: updated_at/created_at clock values, file names, languages and *)
(* texts (they decide no branch of the code modelled here).  An Optional   *)
(* integer that is None is 0, an Optional string that is None is "None".   *)
(***************************************************************************)
EXTENDS Integers, Sequences, FiniteSets, TLC

\* ------------------------------------------------------------------ bounds

\* Job ids ever handed out (uuid4 values are modelled as 1, 2, ...).
MaxIds == 3
\* Capacity of the JobStore (JobStore(max_jobs=...); the source passes 100).
max_jobs == 2
\* settings.max_concurrent_jobs (the source's default is 3).
max_concurrent_jobs == 2
\* Slides of an uploaded deck, in the many-jobs specification.
StoreDeck == 1
\* Slides of an uploaded deck, in the one-job specification.
MaxSlides == 6
\* Slides of an uploaded deck, in the specification of failing collaborators.
FaultyDeck == 3
\* Collaborator calls that fail over a behaviour of that specification.
FaultySlides == 3
\* How far below 0 and above 100 the percent handed to update_progress goes.
MaxOver == 2
\* Direct calls of update_progress over a behaviour.
MaxCalls == 3
\* Slides of an uploaded deck, in the specification with subscribers.
NotifyDeck == 1
\* Slides of an uploaded deck, in the specification with subscribers that stay.
ObserveDeck == 2
\* Slides without text in a deck.
MaxBlank == 1
\* Collaborator calls that fail or return unusable output, over a behaviour.
MaxFaults == 1

\* Largest limit handed to list_jobs.
MaxLimit == 3

\* Callbacks (one per open client connection) that ever subscribe.
MaxCallbacks == 2
\* Registrations a job's callback list may hold.
MaxRegistered == 2
\* Deliveries that may be suspended at the same time.
MaxSlow == 1

Ids == 1..MaxIds
Callbacks == 1..MaxCallbacks

\* ------------------------------------------------------------ state

VARIABLES
    store,         \* JobStore: [jobs, order, results]
    cancel_flags,  \* JobManager._cancel_flags: ids flagged True
    next_id,       \* the next fresh job id
    task,          \* per job id: the locals and position of run_processing_job
    faults,        \* collaborator faults injected so far
    ret,           \* the last create_job, cancel_job, get_job_result or direct update_slide_progress call
    cancel_at,     \* per job id: index of the slide in flight when cancel_job first succeeded, or -1
    websocket_callbacks,  \* JobManager._websocket_callbacks: per job id, the list of callbacks
    notify_tasks,  \* the broadcast tasks not yet finished, in the order of their creation
    published,     \* number of mutating JobManager calls the pipelines have made so far
    received,      \* per callback: the messages it was called with, in order
    raised         \* the <<job id, callback>> pairs of deliveries that raised since the callback last subscribed

vars == <<store, cancel_flags, next_id, task, faults, ret, cancel_at,
          websocket_callbacks, notify_tasks, published, received, raised>>

\* The variables of the notifier that no endpoint and no pipeline step touches.
subscriber_vars == <<websocket_callbacks, received, raised>>

PENDING == "pending"
PROCESSING == "processing"
COMPLETED == "completed"
FAILED == "failed"
CANCELLED == "cancelled"

JobState == {PENDING, PROCESSING, COMPLETED, FAILED, CANCELLED}
SlideState == {PENDING, PROCESSING, COMPLETED, FAILED}
Terminal == {COMPLETED, FAILED, CANCELLED}
Active == {PENDING, PROCESSING}

Min(a, b) == IF a < b THEN a ELSE b

\* dict.update: the keys of data overwrite those of rec.
Merge(rec, data) ==
    [k \in DOMAIN rec |-> IF k \in DOMAIN data THEN data[k] ELSE rec[k]]

\* SlideProgress(slide_number=num).model_dump()
SlideProgress(num) ==
    [slide_number |-> num, narration |-> PENDING, mcq |-> PENDING,
     video |-> PENDING, error |-> "None"]

\* -------------------------------------------------------------- JobStore

\* Evict without `del self._results[oldest]`.
Evict_keep_result(st, cap) ==
    IF Len(st.order) >= cap
    THEN [st EXCEPT !.jobs  = [i \in DOMAIN st.jobs \ {Head(st.order)} |-> st.jobs[i]],
                    !.order = Tail(st.order)]
    ELSE st

\* The eviction loop of JobStore.create: drop the oldest while at capacity
\* (cap is self._max_jobs).
RECURSIVE Evict(_, _)
Evict(st, cap) ==
    IF Len(st.order) >= cap
    THEN LET oldest == Head(st.order) IN
         Evict([jobs    |-> [i \in DOMAIN st.jobs \ {oldest} |-> st.jobs[i]],
                order   |-> Tail(st.order),
                results |-> [i \in DOMAIN st.results \ {oldest} |-> st.results[i]]],
               cap)
    ELSE st

StoreCreate(st, job_id, data, cap) ==
    LET e == Evict(st, cap) IN
    [e EXCEPT !.jobs  = [i \in DOMAIN e.jobs \cup {job_id} |->
                            IF i = job_id THEN data ELSE e.jobs[i]],
              !.order = Append(e.order, job_id)]

StoreUpdate(st, job_id, data) ==
    IF job_id \in DOMAIN st.jobs
    THEN [st EXCEPT !.jobs[job_id] = Merge(@, data)]
    ELSE st

StoreSetResult(st, job_id, result) ==
    [st EXCEPT !.results = [i \in DOMAIN st.results \cup {job_id} |->
                               IF i = job_id THEN result ELSE st.results[i]]]

StoreHasResult(st, job_id) == job_id \in DOMAIN st.results

\* get_active_count counting the pending jobs only.
get_active_count_pending(st) ==
    Cardinality({i \in DOMAIN st.jobs : st.jobs[i].status = PENDING})

get_active_count(st) ==
    Cardinality({i \in DOMAIN st.jobs : st.jobs[i].status \in {PENDING, PROCESSING}})

\* list(self._jobs.values())[-limit:], reversed.  Python's slice [-0:] is the
\* whole list, and [-limit:] with limit beyond the length is the whole list too.
list_jobs(st, limit) ==
    LET n    == Len(st.order)
        from == IF limit = 0 \/ limit >= n THEN 1 ELSE n - limit + 1
        kept == SubSeq(st.order, from, n)
    IN [i \in 1..Len(kept) |-> kept[Len(kept) + 1 - i]]

\* ------------------------------------------------------------ JobManager
\* The methods the pipeline calls, as functions of the store; each returns
\* the store after the call.

\* job_data of create_job
NewJob(job_id, max_slides, generate_video, generate_mcqs) ==
    [job_id |-> job_id, max_slides |-> max_slides,
     generate_video |-> generate_video, generate_mcqs |-> generate_mcqs,
     status |-> PENDING, progress |-> 0, current_slide |-> 0,
     total_slides |-> 0, current_step |-> "Queued", slides_progress |-> <<>>,
     error |-> "None", completed_at |-> "None"]

update_progress(st, job_id, progress, current_slide, current_step) ==
    LET d1 == [progress |-> Min(progress, 100)]
        d2 == IF current_slide # 0 THEN [current_slide |-> current_slide] ELSE <<>>
        d3 == IF current_step # "None" THEN [current_step |-> current_step] ELSE <<>>
        data == [k \in DOMAIN d1 \cup DOMAIN d2 \cup DOMAIN d3 |->
                    IF k \in DOMAIN d3 THEN d3[k]
                    ELSE IF k \in DOMAIN d2 THEN d2[k] ELSE d1[k]]
    IN StoreUpdate(st, job_id, data)

\* start_processing that numbers the records 1..total_slides whatever it is
\* given.
start_processing_renumbered(st, job_id, total_slides, slide_numbers) ==
    StoreUpdate(st, job_id,
        [status |-> PROCESSING, total_slides |-> total_slides,
         current_step |-> "Starting processing",
         slides_progress |-> [i \in 1..total_slides |-> SlideProgress(i)]])

start_processing(st, job_id, total_slides, slide_numbers) ==
    LET slides_progress ==
            IF slide_numbers # <<>>
            THEN [i \in 1..Len(slide_numbers) |-> SlideProgress(slide_numbers[i])]
            ELSE [i \in 1..total_slides |-> SlideProgress(i)]
    IN StoreUpdate(st, job_id,
           [status |-> PROCESSING, total_slides |-> total_slides,
            current_step |-> "Starting processing",
            slides_progress |-> slides_progress])

\* update_slide_progress that writes a fresh record with the supplied fields.
update_slide_progress_fresh(st, job_id, slide_number, narration, mcq, video, error) ==
    IF job_id \notin DOMAIN st.jobs THEN st
    ELSE
    LET sps == st.jobs[job_id].slides_progress
    IN StoreUpdate(st, job_id,
          [slides_progress |->
             [i \in 1..Len(sps) |->
                IF sps[i].slide_number # slide_number THEN sps[i]
                ELSE [slide_number |-> slide_number,
                      narration |-> IF narration # "None" THEN narration ELSE PENDING,
                      mcq       |-> IF mcq # "None" THEN mcq ELSE PENDING,
                      video     |-> IF video # "None" THEN video ELSE PENDING,
                      error     |-> error]]])

\* The first record with the slide number gets the supplied fields ("None" is
\* an argument left out); then the list is stored back.
update_slide_progress(st, job_id, slide_number, narration, mcq, video, error) ==
    IF job_id \notin DOMAIN st.jobs THEN st
    ELSE
    LET sps  == st.jobs[job_id].slides_progress
        hits == {i \in 1..Len(sps) : sps[i].slide_number = slide_number}
        new  == IF hits = {} THEN sps
                ELSE LET k == CHOOSE i \in hits : \A h \in hits : i <= h IN
                     [sps EXCEPT ![k] =
                        [slide_number |-> @.slide_number,
                         narration |-> IF narration # "None" THEN narration ELSE @.narration,
                         mcq       |-> IF mcq # "None" THEN mcq ELSE @.mcq,
                         video     |-> IF video # "None" THEN video ELSE @.video,
                         error     |-> IF error # "None" THEN error ELSE @.error]]
    IN StoreUpdate(st, job_id, [slides_progress |-> new])

complete_job(st, job_id, result) ==
    StoreSetResult(
        StoreUpdate(st, job_id,
            [status |-> COMPLETED, progress |-> 100,
             current_step |-> "Completed", completed_at |-> "now"]),
        job_id, result)

\* fail_job that drops the error text.
fail_job_no_error(st, job_id, error) ==
    StoreUpdate(st, job_id, [status |-> FAILED, current_step |-> "Failed"])

\* fail_job that stores the error text and leaves the status alone.
fail_job_no_status(st, job_id, error) ==
    StoreUpdate(st, job_id, [error |-> error, current_step |-> "Failed"])

fail_job(st, job_id, error) ==
    StoreUpdate(st, job_id,
        [status |-> FAILED, error |-> error, current_step |-> "Failed"])

\* is_cancelled that never sees the flag.
is_cancelled_never(flags, job_id) == FALSE

is_cancelled(flags, job_id) == job_id \in flags

\* The coroutine objects the mutating methods hand to asyncio.create_task.
notify_progress(job_id) == [job_id |-> job_id, type |-> "progress"]
notify_completed(job_id, result) ==
    [job_id |-> job_id, type |-> "completed", result |-> result]
notify_error(job_id, error) ==
    [job_id |-> job_id, type |-> "error", error |-> error]

\* A call that returns before its create_task (update_slide_progress for a
\* job that is not stored).
no_task(job_id) == [job_id |-> job_id, type |-> "none"]

NoMessage == [type |-> "none"]

\* asyncio.create_task for the coroutines of the calls coros, in order: the
\* tasks join the ready queue nt; n calls were made before.  seq is the
\* number of the call that created the task.
create_task(nt, n, coros) ==
    nt \o SelectSeq([k \in 1..Len(coros) |->
                       [coro |-> coros[k], seq |-> n + k, pc |-> "ready",
                        callbacks |-> <<>>, alias |-> FALSE, i |-> 0,
                        message |-> NoMessage]],
                    LAMBDA t : t.coro.type # "none")

\* -------------------------------------------------------------- event loop

AwaitPcs ==
    {"none", "queued", "narr_await", "mcq_await", "mcq_retry_await",
     "tts_await", "image_await", "video_await", "stitch_await", "done"}

\* Await points inside the processing of one slide.
SlideAwaitPcs ==
    {"narr_await", "mcq_await", "mcq_retry_await",
     "tts_await", "image_await", "video_await"}

\* No coroutine holds the event loop and the ready queue is empty: every
\* pipeline and every broadcast task is suspended in an await.
Idle ==
    /\ \A j \in Ids : task[j].pc \in AwaitPcs
    /\ \A k \in DOMAIN notify_tasks : notify_tasks[k].pc = "await"

NoRet == [op |-> "none"]

NoTask ==
    [pc |-> "none", max_slides |-> 0, generate_video |-> FALSE,
     generate_mcqs |-> FALSE, slides |-> <<>>, idx |-> 0,
     narration |-> "None", qa_raw |-> "None", validated_qa |-> "None",
     mcq_calls |-> 0,
     qa |-> "None", audio_path |-> "None",
     image_path |-> "None", video_path |-> "None", error |-> "None",
     results |-> <<>>, video_paths |-> 0, final_video_path |-> "None"]

Init ==
    /\ store = [jobs |-> <<>>, order |-> <<>>, results |-> <<>>]
    /\ cancel_flags = {}
    /\ next_id = 1
    /\ task = [j \in Ids |-> NoTask]
    /\ faults = 0
    /\ ret = NoRet
    /\ cancel_at = [j \in Ids |-> -1]
    /\ websocket_callbacks = [j \in Ids |-> <<>>]
    /\ notify_tasks = <<>>
    /\ published = 0
    /\ received = [s \in Callbacks |-> <<>>]
    /\ raised = {}

\* ------------------------------------------------- endpoints (app/api)

\* POST /process: create_job, then the background task run_processing_job
\* is queued with the same parameters.  A rejected call raises
\* TooManyJobsError and queues nothing.
create_job(nIds, cap, max_slides, generate_video, generate_mcqs) ==
    /\ Idle
    /\ IF get_active_count(store) >= max_concurrent_jobs
       THEN /\ ret' = [op |-> "create_job", raised |-> "TooManyJobsError"]
            /\ UNCHANGED <<store, cancel_flags, next_id, task, faults, cancel_at,
                         notify_tasks, published, subscriber_vars>>
       ELSE /\ next_id <= nIds
            /\ store' = StoreCreate(store, next_id,
                            NewJob(next_id, max_slides, generate_video, generate_mcqs),
                            cap)
            /\ task' = [task EXCEPT ![next_id] =
                            [NoTask EXCEPT !.pc = "queued",
                                           !.max_slides = max_slides,
                                           !.generate_video = generate_video,
                                           !.generate_mcqs = generate_mcqs]]
            /\ next_id' = next_id + 1
            /\ ret' = [op |-> "create_job", raised |-> "None", job_id |-> next_id]
            /\ UNCHANGED <<cancel_flags, faults, cancel_at,
                           notify_tasks, published, subscriber_vars>>

\* cancel_job without `self._cancel_flags[job_id] = True`.
cancel_job_no_flag(job_id) ==
    /\ Idle
    /\ IF job_id \notin DOMAIN store.jobs
       THEN /\ ret' = [op |-> "cancel_job", job_id |-> job_id,
                       raised |-> "JobNotFoundError"]
            /\ UNCHANGED <<store, cancel_flags, next_id, task, faults, cancel_at,
                         notify_tasks, published, subscriber_vars>>
       ELSE IF store.jobs[job_id].status \in {COMPLETED, FAILED, CANCELLED}
       THEN /\ ret' = [op |-> "cancel_job", job_id |-> job_id,
                       raised |-> "None", value |-> FALSE]
            /\ UNCHANGED <<store, cancel_flags, next_id, task, faults, cancel_at,
                         notify_tasks, published, subscriber_vars>>
       ELSE /\ store' = StoreUpdate(store, job_id,
                            [status |-> CANCELLED, current_step |-> "Cancelled"])
            /\ ret' = [op |-> "cancel_job", job_id |-> job_id,
                       raised |-> "None", value |-> TRUE]
            /\ UNCHANGED <<cancel_flags, next_id, task, faults, cancel_at,
                           notify_tasks, published, subscriber_vars>>

\* cancel_job that sets the flag before it looks at the status.
cancel_job_flag_first(job_id) ==
    /\ Idle
    /\ IF job_id \notin DOMAIN store.jobs
       THEN /\ ret' = [op |-> "cancel_job", job_id |-> job_id,
                       raised |-> "JobNotFoundError"]
            /\ UNCHANGED <<store, cancel_flags, next_id, task, faults, cancel_at,
                         notify_tasks, published, subscriber_vars>>
       ELSE IF store.jobs[job_id].status \in {COMPLETED, FAILED, CANCELLED}
       THEN /\ cancel_flags' = cancel_flags \cup {job_id}
            /\ ret' = [op |-> "cancel_job", job_id |-> job_id,
                       raised |-> "None", value |-> FALSE]
            /\ UNCHANGED <<store, next_id, task, faults, cancel_at,
                         notify_tasks, published, subscriber_vars>>
       ELSE /\ cancel_flags' = cancel_flags \cup {job_id}
            /\ store' = StoreUpdate(store, job_id,
                            [status |-> CANCELLED, current_step |-> "Cancelled"])
            /\ ret' = [op |-> "cancel_job", job_id |-> job_id,
                       raised |-> "None", value |-> TRUE]
            /\ cancel_at' =
                 IF cancel_at[job_id] = -1 /\ job_id \notin cancel_flags
                    /\ task[job_id].pc \in SlideAwaitPcs
                 THEN [cancel_at EXCEPT ![job_id] = task[job_id].idx]
                 ELSE cancel_at
            /\ UNCHANGED <<next_id, task, faults,
                           notify_tasks, published, subscriber_vars>>

cancel_job(job_id) ==
    /\ Idle
    /\ IF job_id \notin DOMAIN store.jobs
       THEN /\ ret' = [op |-> "cancel_job", job_id |-> job_id,
                       raised |-> "JobNotFoundError"]
            /\ UNCHANGED <<store, cancel_flags, next_id, task, faults, cancel_at,
                         notify_tasks, published, subscriber_vars>>
       ELSE IF store.jobs[job_id].status \in {COMPLETED, FAILED, CANCELLED}
       THEN /\ ret' = [op |-> "cancel_job", job_id |-> job_id,
                       raised |-> "None", value |-> FALSE]
            /\ UNCHANGED <<store, cancel_flags, next_id, task, faults, cancel_at,
                         notify_tasks, published, subscriber_vars>>
       ELSE /\ cancel_flags' = cancel_flags \cup {job_id}
            /\ store' = StoreUpdate(store, job_id,
                            [status |-> CANCELLED, current_step |-> "Cancelled"])
            /\ ret' = [op |-> "cancel_job", job_id |-> job_id,
                       raised |-> "None", value |-> TRUE]
            /\ cancel_at' =
                 IF cancel_at[job_id] = -1 /\ job_id \notin cancel_flags
                    /\ task[job_id].pc \in SlideAwaitPcs
                 THEN [cancel_at EXCEPT ![job_id] = task[job_id].idx]
                 ELSE cancel_at
            /\ UNCHANGED <<next_id, task, faults,
                           notify_tasks, published, subscriber_vars>>

\* The read-only methods, as functions of the store: what a call made in
\* that state returns or raises.
\* JobStatus(**job_data) validates progress: Field(ge=0, le=100).
get_job_status(st, job_id) ==
    IF job_id \notin DOMAIN st.jobs
    THEN [raised |-> "JobNotFoundError"]
    ELSE IF st.jobs[job_id].progress \notin 0..100
    THEN [raised |-> "ValidationError"]
    ELSE [raised |-> "None", value |-> st.jobs[job_id]]

\* result = store.get_result(id); only when there is none are the job and
\* its status looked at.  A Completed job without a result yields None.
get_job_result(st, job_id) ==
    IF StoreHasResult(st, job_id)
    THEN [raised |-> "None", value |-> st.results[job_id]]
    ELSE IF job_id \notin DOMAIN st.jobs
    THEN [raised |-> "JobNotFoundError"]
    ELSE IF st.jobs[job_id].status # COMPLETED
    THEN [raised |-> "JobNotFoundError: not completed yet"]
    ELSE [raised |-> "None", value |-> [job_id |-> "None"]]

NoOutcome == [raised |-> "none"]

\* get_job_result that takes the result out of the store (dict.pop in place
\* of dict.get).
get_job_result_call_pop(job_id) ==
    /\ Idle
    /\ ret' = [op |-> "get_job_result", job_id |-> job_id,
               outcome |-> get_job_result(store, job_id),
               previous |-> IF ret.op = "get_job_result" /\ ret.job_id = job_id
                            THEN ret.outcome ELSE NoOutcome]
    /\ store' = [store EXCEPT !.results =
                    [i \in DOMAIN store.results \ {job_id} |-> store.results[i]]]
    /\ UNCHANGED <<cancel_flags, next_id, task, faults, cancel_at,
                   notify_tasks, published, subscriber_vars>>

\* A call of get_job_result: ret keeps its outcome and, when the call before
\* it was get_job_result for the same job, that call's outcome.
get_job_result_call(job_id) ==
    /\ Idle
    /\ ret' = [op |-> "get_job_result", job_id |-> job_id,
               outcome |-> get_job_result(store, job_id),
               previous |-> IF ret.op = "get_job_result" /\ ret.job_id = job_id
                            THEN ret.outcome ELSE NoOutcome]
    /\ UNCHANGED <<store, cancel_flags, next_id, task, faults, cancel_at,
                   notify_tasks, published, subscriber_vars>>

\* A caller of JobManager.update_progress with any percent (the pipeline
\* passes 5, 95 and the slide values only).
update_progress_call(job_id, progress) ==
    /\ Idle
    /\ published < MaxCalls
    /\ store' = update_progress(store, job_id, progress, 0, "None")
    /\ notify_tasks' = create_task(notify_tasks, published, <<notify_progress(job_id)>>)
    /\ published' = published + 1
    /\ ret' = NoRet
    /\ UNCHANGED <<cancel_flags, next_id, task, faults, cancel_at, subscriber_vars>>

\* JobManager.start_processing called directly.
start_processing_call(job_id, slide_numbers) ==
    /\ Idle
    /\ published < MaxCalls
    /\ store' = start_processing(store, job_id, Len(slide_numbers), slide_numbers)
    /\ notify_tasks' = create_task(notify_tasks, published, <<notify_progress(job_id)>>)
    /\ published' = published + 1
    /\ ret' = NoRet
    /\ UNCHANGED <<cancel_flags, next_id, task, faults, cancel_at, subscriber_vars>>

\* JobManager.update_slide_progress called directly; "None" is an argument
\* left out.  Without the job it returns before create_task.  ret keeps the
\* arguments of the call.
update_slide_progress_call(job_id, slide_number, narration, mcq, video, error) ==
    /\ Idle
    /\ published < MaxCalls
    /\ store' = update_slide_progress(store, job_id, slide_number,
                                      narration, mcq, video, error)
    /\ IF job_id \in DOMAIN store.jobs
       THEN /\ notify_tasks' =
                  create_task(notify_tasks, published, <<notify_progress(job_id)>>)
            /\ published' = published + 1
       ELSE UNCHANGED <<notify_tasks, published>>
    /\ ret' = [op |-> "update_slide_progress", job_id |-> job_id,
               slide_number |-> slide_number, narration |-> narration,
               mcq |-> mcq, video |-> video, error |-> error]
    /\ UNCHANGED <<cancel_flags, next_id, task, faults, cancel_at, subscriber_vars>>

\* ------------------------------------------------ notifier (job_manager.py)

\* subscribe: append to the job's list.  A broadcast task that is iterating
\* over that very list object sees the new entry.
subscribe(job_id, callback) ==
    /\ Idle
    /\ Len(websocket_callbacks[job_id]) < MaxRegistered
    /\ websocket_callbacks' =
          [websocket_callbacks EXCEPT ![job_id] = Append(@, callback)]
    /\ notify_tasks' =
          [k \in DOMAIN notify_tasks |->
             IF notify_tasks[k].coro.job_id = job_id /\ notify_tasks[k].alias
             THEN [notify_tasks[k] EXCEPT !.callbacks = Append(@, callback)]
             ELSE notify_tasks[k]]
    /\ raised' = raised \ {<<job_id, callback>>}
    /\ ret' = NoRet
    /\ UNCHANGED <<store, cancel_flags, next_id, task, faults, cancel_at,
                   published, received>>

\* unsubscribe that takes out the first registration only.
unsubscribe_first(job_id, callback) ==
    /\ Idle
    /\ websocket_callbacks' =
          [websocket_callbacks EXCEPT ![job_id] =
             LET hits == {i \in DOMAIN @ : @[i] = callback} IN
             IF hits = {} THEN @
             ELSE LET k == CHOOSE i \in hits : \A h \in hits : i <= h
                  IN SubSeq(@, 1, k - 1) \o SubSeq(@, k + 1, Len(@))]
    /\ notify_tasks' =
          [k \in DOMAIN notify_tasks |->
             IF notify_tasks[k].coro.job_id = job_id
             THEN [notify_tasks[k] EXCEPT !.alias = FALSE]
             ELSE notify_tasks[k]]
    /\ ret' = NoRet
    /\ UNCHANGED <<store, cancel_flags, next_id, task, faults, cancel_at,
                   published, received, raised>>

\* unsubscribe: the job's list is replaced by a new list without the
\* callback; a broadcast task in progress keeps the list it read.
unsubscribe(job_id, callback) ==
    /\ Idle
    /\ websocket_callbacks' =
          [websocket_callbacks EXCEPT ![job_id] = SelectSeq(@, LAMBDA cb : cb # callback)]
    /\ notify_tasks' =
          [k \in DOMAIN notify_tasks |->
             IF notify_tasks[k].coro.job_id = job_id
             THEN [notify_tasks[k] EXCEPT !.alias = FALSE]
             ELSE notify_tasks[k]]
    /\ ret' = NoRet
    /\ UNCHANGED <<store, cancel_flags, next_id, task, faults, cancel_at,
                   published, received, raised>>

RemoveAt(seq, k) == SubSeq(seq, 1, k - 1) \o SubSeq(seq, k + 1, Len(seq))

\* The message a broadcast task builds when it starts.
message_of(t, st) ==
    LET c == t.coro IN
    IF c.type = "progress"
    THEN [type |-> "progress", job_id |-> c.job_id, seq |-> t.seq,
          progress |-> st.jobs[c.job_id].progress]
    ELSE IF c.type = "completed"
    THEN [type |-> "completed", job_id |-> c.job_id, seq |-> t.seq,
          result |-> c.result]
    ELSE [type |-> "error", job_id |-> c.job_id, seq |-> t.seq,
          error |-> c.error]

\* What _notify_progress, _notify_completed and _notify_error test before
\* they build a message: `if job_data and callbacks`, `if callbacks`.
has_delivery(t) ==
    /\ websocket_callbacks[t.coro.job_id] # <<>>
    /\ t.coro.type = "progress" => t.coro.job_id \in DOMAIN store.jobs

\* The loop runs the tasks of the ready queue, oldest first (they are the
\* newest tasks): a task that finds no callback (or no record) is over at
\* once; the first one that has a delivery to make builds its message.
notify_start ==
    /\ \A j \in Ids : task[j].pc \in AwaitPcs
    /\ \A k \in DOMAIN notify_tasks : notify_tasks[k].pc # "deliver"
    /\ LET ready == {k \in DOMAIN notify_tasks : notify_tasks[k].pc = "ready"}
           work  == {k \in ready : has_delivery(notify_tasks[k])}
       IN
       /\ ready # {}
       /\ notify_tasks' =
            LET oldest == CHOOSE k \in ready : \A h \in ready : k <= h IN
            IF work = {} THEN SubSeq(notify_tasks, 1, oldest - 1)
            ELSE LET first == CHOOSE k \in work : \A h \in work : k <= h
                     t     == notify_tasks[first]
                     begun == [t EXCEPT !.pc = "deliver",
                                        !.callbacks = websocket_callbacks[t.coro.job_id],
                                        !.alias = TRUE, !.i = 1,
                                        !.message = message_of(t, store)]
                 IN SubSeq(notify_tasks, 1, oldest - 1) \o <<begun>>
                      \o SubSeq(notify_tasks, first + 1, Len(notify_tasks))
    /\ ret' = NoRet
    /\ UNCHANGED <<store, cancel_flags, next_id, task, faults, cancel_at,
                   published, subscriber_vars>>

\* After callback i of task k has returned or raised: the next callback of
\* the list, or the end of the task.
next_callback(nt, k) ==
    IF nt[k].i < Len(nt[k].callbacks)
    THEN [nt EXCEPT ![k].i = @ + 1, ![k].pc = "deliver"]
    ELSE RemoveAt(nt, k)

\* notify_deliver without the try/except around the call: an exception of
\* the callback ends the broadcast task.
notify_deliver_uncaught(slow) ==
    \E k \in DOMAIN notify_tasks :
      /\ notify_tasks[k].pc = "deliver"
      /\ LET t  == notify_tasks[k]
             cb == t.callbacks[t.i]
         IN
         /\ received' = [received EXCEPT ![cb] = Append(@, t.message)]
         /\ \E out \in {"return", "raise", "suspend"} :
              IF out = "suspend"
              THEN /\ Cardinality({h \in DOMAIN notify_tasks :
                                     notify_tasks[h].pc = "await"}) < slow
                   /\ notify_tasks' = [notify_tasks EXCEPT ![k].pc = "await"]
                   /\ raised' = raised
              ELSE IF out = "raise"
              THEN /\ notify_tasks' = RemoveAt(notify_tasks, k)
                   /\ raised' = raised \cup {<<t.coro.job_id, cb>>}
              ELSE /\ notify_tasks' = next_callback(notify_tasks, k)
                   /\ raised' = raised
      /\ ret' = NoRet
      /\ UNCHANGED <<store, cancel_flags, next_id, task, faults, cancel_at,
                     published, websocket_callbacks>>

\* `await callback(message)`: the callback is called with the message; it
\* returns, raises (logged) or is suspended.
notify_deliver(slow) ==
    \E k \in DOMAIN notify_tasks :
      /\ notify_tasks[k].pc = "deliver"
      /\ LET t  == notify_tasks[k]
             cb == t.callbacks[t.i]
         IN
         /\ received' = [received EXCEPT ![cb] = Append(@, t.message)]
         /\ \E out \in {"return", "raise", "suspend"} :
              IF out = "suspend"
              THEN /\ Cardinality({h \in DOMAIN notify_tasks :
                                     notify_tasks[h].pc = "await"}) < slow
                   /\ notify_tasks' = [notify_tasks EXCEPT ![k].pc = "await"]
                   /\ raised' = raised
              ELSE /\ notify_tasks' = next_callback(notify_tasks, k)
                   /\ raised' = IF out = "raise"
                                THEN raised \cup {<<t.coro.job_id, cb>>}
                                ELSE raised
      /\ ret' = NoRet
      /\ UNCHANGED <<store, cancel_flags, next_id, task, faults, cancel_at,
                     published, websocket_callbacks>>

\* A suspended callback returns or raises.
notify_resume ==
    /\ Idle
    /\ \E k \in DOMAIN notify_tasks :
         /\ notify_tasks[k].pc = "await"
         /\ LET t  == notify_tasks[k]
                cb == t.callbacks[t.i]
            IN \E out \in {"return", "raise"} :
                 /\ notify_tasks' = next_callback(notify_tasks, k)
                 /\ raised' = IF out = "raise"
                              THEN raised \cup {<<t.coro.job_id, cb>>}
                              ELSE raised
    /\ ret' = NoRet
    /\ UNCHANGED <<store, cancel_flags, next_id, task, faults, cancel_at,
                   published, websocket_callbacks, received>>

\* ------------------------------------------- pipeline (async_processor.py)

\* parse_ppt gives one entry per slide, numbered from 1, with has_text; a
\* deck is its has_text sequence.
Decks(n, nb) ==
    UNION {{d \in [1..len -> BOOLEAN] :
              Cardinality({i \in 1..len : ~d[i]}) <= nb} : len \in 0..n}

\* [s for s in all_slides if s["has_text"]][:max_slides], as slide numbers
RECURSIVE TextSlides(_, _)
TextSlides(deck, i) ==
    IF i > Len(deck) THEN <<>>
    ELSE (IF deck[i] THEN <<i>> ELSE <<>>) \o TextSlides(deck, i + 1)

slide_numbers_of(deck, max_slides) ==
    LET with_text == TextSlides(deck, 1)
    IN SubSeq(with_text, 1, Min(max_slides, Len(with_text)))

base_progress(idx, total_slides) == 10 + ((idx * 80) \div total_slides)

\* Python truthiness of the values a slide result holds.
Truthy(x) == x \notin {"None", "", "{}"}

slide_num(t) == t.slides[t.idx + 1]

\* A pipeline step of job j: its store effect, its new locals and the
\* coroutine of the JobManager call it has made, if any.
PipeStep(j, st, t, coros) ==
    /\ store' = st
    /\ task' = [task EXCEPT ![j] = t]
    /\ notify_tasks' = create_task(notify_tasks, published, coros)
    /\ published' = published + Len(coros)
    /\ ret' = NoRet
    /\ UNCHANGED <<cancel_flags, next_id, cancel_at, subscriber_vars>>

Fault(nf) == faults < nf /\ faults' = faults + 1
NoFault == faults' = faults

\* results.append(slide_result) and the loop's next position: the next
\* slide's cancellation check, or what follows the loop.
end_slide(t) ==
    LET rs == Append(t.results,
                  [slide_number |-> slide_num(t), narration |-> t.narration,
                   qa |-> t.qa, audio_path |-> t.audio_path,
                   image_path |-> t.image_path, video_path |-> t.video_path])
    IN [t EXCEPT !.results = rs,
                 !.idx = t.idx + 1,
                 !.narration = "None", !.qa_raw = "None",
                 !.validated_qa = "None", !.mcq_calls = 0,
                 !.qa = "None", !.audio_path = "None", !.image_path = "None",
                 !.video_path = "None", !.error = "None",
                 !.pc = IF t.idx + 1 < Len(t.slides) THEN "check"
                        ELSE IF t.generate_video /\ t.video_paths > 0
                        THEN "stitch_begin" ELSE "complete"]

\* `if generate_video:` in place of `if generate_video and narration:`.
after_mcq_any_narration(t) ==
    IF t.generate_video
    THEN [t EXCEPT !.pc = "video_begin"]
    ELSE end_slide(t)

\* Position after the quiz stage (or after narration when no quiz is asked).
after_mcq(t) ==
    IF t.generate_video /\ Truthy(t.narration)
    THEN [t EXCEPT !.pc = "video_begin"]
    ELSE end_slide(t)

\* run_processing_job starts: update_progress(5, "Parsing presentation")
run_start(j) ==
    /\ Idle
    /\ task[j].pc = "queued"
    /\ PipeStep(j, update_progress(store, j, 5, 0, "Parsing presentation"),
                [task[j] EXCEPT !.pc = "parse"],
                <<notify_progress(j)>>)
    /\ NoFault

\* parse_ppt raises: PPTParseError leaves process_ppt_async and
\* run_processing_job calls fail_job.
parse_error(j, nf) ==
    /\ task[j].pc = "parse"
    /\ Fault(nf)
    /\ PipeStep(j, fail_job(store, j, "PPTParseError"),
                [task[j] EXCEPT !.pc = "done"],
                <<notify_error(j, "PPTParseError")>>)

\* The empty deck handed to start_processing before the empty JobResult is
\* returned.
parse_empty_started(j, n, nb) ==
    /\ task[j].pc = "parse"
    /\ \E deck \in Decks(n, nb) : slide_numbers_of(deck, task[j].max_slides) = <<>>
    /\ PipeStep(j, start_processing(store, j, 0, <<>>),
                [task[j] EXCEPT !.pc = "complete"],
                <<notify_progress(j)>>)
    /\ NoFault

\* No slide with text is left: the empty JobResult is returned.
parse_empty(j, n, nb) ==
    /\ task[j].pc = "parse"
    /\ \E deck \in Decks(n, nb) : slide_numbers_of(deck, task[j].max_slides) = <<>>
    /\ PipeStep(j, store, [task[j] EXCEPT !.pc = "complete"],
                <<>>)
    /\ NoFault

\* start_processing(job_id, total_slides, slide_numbers)
parse_slides(j, n, nb) ==
    /\ task[j].pc = "parse"
    /\ \E deck \in Decks(n, nb) :
         LET nums == slide_numbers_of(deck, task[j].max_slides) IN
         /\ nums # <<>>
         /\ PipeStep(j, start_processing(store, j, Len(nums), nums),
                     [task[j] EXCEPT !.pc = "check", !.slides = nums, !.idx = 0],
                <<notify_progress(j)>>)
    /\ NoFault

\* check_cancellation with JobCancelledError handled like any other
\* exception of the run: run_processing_job calls fail_job.
check_cancellation_fail(j) ==
    /\ task[j].pc = "check"
    /\ IF is_cancelled(cancel_flags, j)
       THEN PipeStep(j, fail_job(store, j, "JobCancelledError"),
                     [task[j] EXCEPT !.pc = "done"],
                     <<notify_error(j, "JobCancelledError")>>)
       ELSE PipeStep(j, store, [task[j] EXCEPT !.pc = "base"], <<>>)
    /\ NoFault

\* check_cancellation at the head of the loop: JobCancelledError leaves the
\* run; run_processing_job passes on it.
check_cancellation(j) ==
    /\ task[j].pc = "check"
    /\ PipeStep(j, store,
                [task[j] EXCEPT !.pc = IF is_cancelled(cancel_flags, j)
                                       THEN "done" ELSE "base"],
                <<>>)
    /\ NoFault

slide_base(j) ==
    /\ task[j].pc = "base"
    /\ PipeStep(j, update_progress(store, j,
                       base_progress(task[j].idx, Len(task[j].slides)),
                       slide_num(task[j]), "Processing slide"),
                [task[j] EXCEPT !.pc = "narr_begin"],
                <<notify_progress(j)>>)
    /\ NoFault

narr_begin(j) ==
    /\ task[j].pc = "narr_begin"
    /\ PipeStep(j, update_slide_progress(store, j, slide_num(task[j]),
                       PROCESSING, "None", "None", "None"),
                [task[j] EXCEPT !.pc = "narr_prog"],
                IF j \in DOMAIN store.jobs THEN <<notify_progress(j)>> ELSE <<no_task(j)>>)
    /\ NoFault

narr_prog(j) ==
    /\ task[j].pc = "narr_prog"
    /\ PipeStep(j, update_progress(store, j,
                       base_progress(task[j].idx, Len(task[j].slides)) + 5,
                       0, "Generating narration"),
                [task[j] EXCEPT !.pc = "narr_await"],
                <<notify_progress(j)>>)
    /\ NoFault

\* generate_narration_async returns a text, returns "" or raises.
narr_return(j, nf) ==
    /\ Idle
    /\ task[j].pc = "narr_await"
    /\ \E out \in {"text", "", "raise"} :
         /\ IF out = "text" THEN NoFault ELSE Fault(nf)
         /\ PipeStep(j, store,
               IF out = "raise"
               THEN [task[j] EXCEPT !.pc = "except",
                                    !.error = "LLM failed to generate narration"]
               ELSE [task[j] EXCEPT !.pc = "narr_done", !.narration = out],
                <<>>)

narr_done(j) ==
    /\ task[j].pc = "narr_done"
    /\ PipeStep(j, update_slide_progress(store, j, slide_num(task[j]),
                       COMPLETED, "None", "None", "None"),
                IF task[j].generate_mcqs
                THEN [task[j] EXCEPT !.pc = "mcq_begin"]
                ELSE after_mcq(task[j]),
                IF j \in DOMAIN store.jobs THEN <<notify_progress(j)>> ELSE <<no_task(j)>>)
    /\ NoFault

mcq_begin(j) ==
    /\ task[j].pc = "mcq_begin"
    /\ PipeStep(j, update_slide_progress(store, j, slide_num(task[j]),
                       "None", PROCESSING, "None", "None"),
                [task[j] EXCEPT !.pc = "mcq_prog"],
                IF j \in DOMAIN store.jobs THEN <<notify_progress(j)>> ELSE <<no_task(j)>>)
    /\ NoFault

mcq_prog(j) ==
    /\ task[j].pc = "mcq_prog"
    /\ PipeStep(j, update_progress(store, j,
                       base_progress(task[j].idx, Len(task[j].slides)) + 10,
                       0, "Generating MCQs"),
                [task[j] EXCEPT !.pc = "mcq_await"],
                <<notify_progress(j)>>)
    /\ NoFault

\* First generate_mcqs_async and validate_and_fix_mcqs: questions in the
\* language, no question, questions in another language, or an exception.
\* No question or a wrong language: the retry is awaited.
mcq_return(j, nf) ==
    /\ Idle
    /\ task[j].pc = "mcq_await"
    /\ \E out \in {"questions", "empty", "wrong_language", "raise"} :
         /\ IF out = "questions" THEN NoFault ELSE Fault(nf)
         /\ PipeStep(j, store,
               IF out = "raise"
               THEN [task[j] EXCEPT !.pc = "except", !.mcq_calls = 1,
                                    !.qa_raw = out,
                                    !.error = "LLM failed to generate MCQs"]
               ELSE IF out = "questions"
               THEN [task[j] EXCEPT !.pc = "mcq_done", !.mcq_calls = 1,
                                    !.qa_raw = out, !.validated_qa = out]
               ELSE [task[j] EXCEPT !.pc = "mcq_retry_await", !.mcq_calls = 1,
                                    !.qa_raw = out, !.validated_qa = out],
                <<>>)

\* The retry with an exception in place of {"questions": []} when the
\* language check fails again.
mcq_retry_return_raise(j) ==
    /\ Idle
    /\ task[j].pc = "mcq_retry_await"
    /\ NoFault
    /\ \E out \in {"questions", "empty", "wrong_language", "raise"} :
         /\ PipeStep(j, store,
               IF out \in {"raise", "wrong_language"}
               THEN [task[j] EXCEPT !.pc = "except", !.mcq_calls = 2,
                                    !.qa_raw = out,
                                    !.error = "LLM failed to generate MCQs"]
               ELSE [task[j] EXCEPT !.pc = "mcq_done", !.mcq_calls = 2,
                                    !.qa_raw = out, !.validated_qa = out],
                <<>>)

\* The retry (part of the stage that already misbehaved: it draws on no
\* further fault): only the language is checked again; a wrong language
\* gives {"questions": []}.
mcq_retry_return(j) ==
    /\ Idle
    /\ task[j].pc = "mcq_retry_await"
    /\ NoFault
    /\ \E out \in {"questions", "empty", "wrong_language", "raise"} :
         /\ PipeStep(j, store,
               IF out = "raise"
               THEN [task[j] EXCEPT !.pc = "except", !.mcq_calls = 2,
                                    !.qa_raw = out,
                                    !.error = "LLM failed to generate MCQs"]
               ELSE [task[j] EXCEPT !.pc = "mcq_done", !.mcq_calls = 2,
                        !.qa_raw = out,
                        !.validated_qa = IF out = "wrong_language" THEN "empty" ELSE out],
                <<>>)

\* qa_obj keeps validated_qa.get("easy"/"medium"/"hard"); validated_qa has
\* the one key "questions", so qa_obj is {} whatever was generated.
mcq_done(j) ==
    /\ task[j].pc = "mcq_done"
    /\ PipeStep(j, update_slide_progress(store, j, slide_num(task[j]),
                       "None", COMPLETED, "None", "None"),
                after_mcq([task[j] EXCEPT !.qa = "{}"]),
                IF j \in DOMAIN store.jobs THEN <<notify_progress(j)>> ELSE <<no_task(j)>>)
    /\ NoFault

video_begin(j) ==
    /\ task[j].pc = "video_begin"
    /\ PipeStep(j, update_slide_progress(store, j, slide_num(task[j]),
                       "None", "None", PROCESSING, "None"),
                [task[j] EXCEPT !.pc = "video_prog"],
                IF j \in DOMAIN store.jobs THEN <<notify_progress(j)>> ELSE <<no_task(j)>>)
    /\ NoFault

video_prog(j) ==
    /\ task[j].pc = "video_prog"
    /\ PipeStep(j, update_progress(store, j,
                       base_progress(task[j].idx, Len(task[j].slides)) + 15,
                       0, "Creating video"),
                [task[j] EXCEPT !.pc = "tts_await"],
                <<notify_progress(j)>>)
    /\ NoFault

\* synthesize_speech in the executor
tts_return(j, nf) ==
    /\ Idle
    /\ task[j].pc = "tts_await"
    /\ \E ok \in BOOLEAN :
         /\ IF ok THEN NoFault ELSE Fault(nf)
         /\ PipeStep(j, store,
               IF ok THEN [task[j] EXCEPT !.pc = "image_await", !.audio_path = "audio"]
               ELSE [task[j] EXCEPT !.pc = "except", !.error = "TTSError"],
                <<>>)

\* render_slide_image in the executor
image_return(j, nf) ==
    /\ Idle
    /\ task[j].pc = "image_await"
    /\ \E ok \in BOOLEAN :
         /\ IF ok THEN NoFault ELSE Fault(nf)
         /\ PipeStep(j, store,
               IF ok THEN [task[j] EXCEPT !.pc = "video_await", !.image_path = "image"]
               ELSE [task[j] EXCEPT !.pc = "except", !.error = "RenderError"],
                <<>>)

\* create_video in the executor
video_return(j, nf) ==
    /\ Idle
    /\ task[j].pc = "video_await"
    /\ \E ok \in BOOLEAN :
         /\ IF ok THEN NoFault ELSE Fault(nf)
         /\ PipeStep(j, store,
               IF ok THEN [task[j] EXCEPT !.pc = "video_done", !.video_path = "video",
                                          !.video_paths = @ + 1]
               ELSE [task[j] EXCEPT !.pc = "except", !.error = "VideoAssemblyError"],
                <<>>)

video_done(j) ==
    /\ task[j].pc = "video_done"
    /\ PipeStep(j, update_slide_progress(store, j, slide_num(task[j]),
                       "None", "None", COMPLETED, "None"),
                end_slide(task[j]),
                IF j \in DOMAIN store.jobs THEN <<notify_progress(j)>> ELSE <<no_task(j)>>)
    /\ NoFault

\* The slide boundary without its handler: the exception leaves
\* process_ppt_async and run_processing_job calls fail_job.
slide_except_abort(j) ==
    /\ task[j].pc = "except"
    /\ PipeStep(j, fail_job(store, j, task[j].error),
                [task[j] EXCEPT !.pc = "done"],
                <<notify_error(j, task[j].error)>>)
    /\ NoFault

\* except Exception at the slide boundary
slide_except(j) ==
    /\ task[j].pc = "except"
    /\ LET t == task[j] IN
       PipeStep(j, update_slide_progress(store, j, slide_num(t),
                      IF ~Truthy(t.narration) THEN FAILED ELSE COMPLETED,
                      IF t.generate_mcqs /\ ~Truthy(t.qa) THEN FAILED ELSE COMPLETED,
                      IF t.generate_video /\ ~Truthy(t.video_path) THEN FAILED ELSE COMPLETED,
                      t.error),
                end_slide(t),
                IF j \in DOMAIN store.jobs THEN <<notify_progress(j)>> ELSE <<no_task(j)>>)
    /\ NoFault

stitch_begin(j) ==
    /\ task[j].pc = "stitch_begin"
    /\ PipeStep(j, update_progress(store, j, 95, 0, "Stitching final video"),
                [task[j] EXCEPT !.pc = "stitch_await"],
                <<notify_progress(j)>>)
    /\ NoFault

\* stitch_videos whose exception leaves process_ppt_async:
\* run_processing_job calls fail_job.
stitch_return_fail(j, nf) ==
    /\ Idle
    /\ task[j].pc = "stitch_await"
    /\ \E ok \in BOOLEAN :
         /\ IF ok THEN NoFault ELSE Fault(nf)
         /\ IF ok
            THEN PipeStep(j, store,
                     [task[j] EXCEPT !.pc = "complete", !.final_video_path = "final"],
                     <<>>)
            ELSE PipeStep(j, fail_job(store, j, "VideoAssemblyError"),
                     [task[j] EXCEPT !.pc = "done"],
                     <<notify_error(j, "VideoAssemblyError")>>)

\* stitch_videos in the executor; its exception is logged only.
stitch_return(j, nf) ==
    /\ Idle
    /\ task[j].pc = "stitch_await"
    /\ \E ok \in BOOLEAN :
         /\ IF ok THEN NoFault ELSE Fault(nf)
         /\ PipeStep(j, store,
               [task[j] EXCEPT !.pc = "complete",
                               !.final_video_path = IF ok THEN "final" ELSE "None"],
                <<>>)

\* process_ppt_async returns the JobResult; run_processing_job calls complete_job.
run_complete(j) ==
    /\ task[j].pc = "complete"
    /\ LET job_result == [job_id |-> j, status |-> COMPLETED,
                          slides |-> task[j].results,
                          final_video_path |-> task[j].final_video_path]
       IN PipeStep(j, complete_job(store, j, job_result),
                   [task[j] EXCEPT !.pc = "done"],
                   <<notify_completed(j, job_result)>>)
    /\ NoFault

\* complete_job at the grain of the JobStore's lock: store.update is one
\* locked operation and store.set_result the next one; between the two the
\* store is what a reader on another thread finds.
run_complete_update(j) ==
    /\ task[j].pc = "complete"
    /\ PipeStep(j, StoreUpdate(store, j,
                       [status |-> COMPLETED, progress |-> 100,
                        current_step |-> "Completed", completed_at |-> "now"]),
                [task[j] EXCEPT !.pc = "complete_set_result"],
                <<>>)
    /\ NoFault

run_complete_set_result(j) ==
    /\ task[j].pc = "complete_set_result"
    /\ LET job_result == [job_id |-> j, status |-> COMPLETED,
                          slides |-> task[j].results,
                          final_video_path |-> task[j].final_video_path]
       IN PipeStep(j, StoreSetResult(store, j, job_result),
                   [task[j] EXCEPT !.pc = "done"],
                   <<notify_completed(j, job_result)>>)
    /\ NoFault

Pipeline(j, n, nb, nf) ==
    \/ run_start(j)
    \/ parse_error(j, nf)
    \/ parse_empty(j, n, nb)
    \/ parse_slides(j, n, nb)
    \/ check_cancellation(j)
    \/ slide_base(j)
    \/ narr_begin(j)
    \/ narr_prog(j)
    \/ narr_return(j, nf)
    \/ narr_done(j)
    \/ mcq_begin(j)
    \/ mcq_prog(j)
    \/ mcq_return(j, nf)
    \/ mcq_retry_return(j)
    \/ mcq_done(j)
    \/ video_begin(j)
    \/ video_prog(j)
    \/ tts_return(j, nf)
    \/ image_return(j, nf)
    \/ video_return(j, nf)
    \/ video_done(j)
    \/ slide_except(j)
    \/ stitch_begin(j)
    \/ stitch_return(j, nf)
    \/ run_complete(j)

\* The steps of a run that was asked for neither quiz nor video.
PipelineNarration(j, n, nb, nf) ==
    \/ run_start(j)
    \/ parse_error(j, nf)
    \/ parse_empty(j, n, nb)
    \/ parse_slides(j, n, nb)
    \/ check_cancellation(j)
    \/ slide_base(j)
    \/ narr_begin(j)
    \/ narr_prog(j)
    \/ narr_return(j, nf)
    \/ narr_done(j)
    \/ slide_except(j)
    \/ run_complete(j)

\* The max_slides values an upload asks for, for decks of up to n slides.
MaxSlidesChoices(n) == {n - 1, n} \ {0}

\* nIds uploads into a store of capacity cap; decks of up to n slides, nb of them without text; nf
\* collaborator stages that fail; flags: the values of generate_video and
\* generate_mcqs the uploads ask for.
Step(nIds, cap, n, nb, nf, flags) ==
    \/ \E ms \in MaxSlidesChoices(n), gv \in flags, gm \in flags :
          create_job(nIds, cap, ms, gv, gm)
    \/ \E j \in 1..nIds : cancel_job(j)
    \/ \E j \in 1..nIds : Pipeline(j, n, nb, nf)
    \/ notify_start

\* Several jobs, short decks, a store as large as the admission limit.
Next == Step(MaxIds, max_jobs, StoreDeck, MaxBlank, MaxFaults, {TRUE})
Spec == Init /\ [][Next]_vars

\* The same with room in the store beyond the admission limit, as in the
\* source (100 stored jobs, 3 active ones).
NextRoom == Step(MaxIds, max_jobs + 1, StoreDeck, MaxBlank, MaxFaults, {TRUE})
SpecRoom == Init /\ [][NextRoom]_vars

\* One job, decks of up to MaxSlides slides, all with text.
NextPipe == Step(1, max_jobs, MaxSlides, 0, MaxFaults, BOOLEAN)
SpecPipe == Init /\ [][NextPipe]_vars

\* One job with quiz and video, decks of up to FaultyDeck slides, MaxBlank
\* of them without text, up to FaultySlides failing collaborator calls.
NextFaults == Step(1, max_jobs, FaultyDeck, MaxBlank, FaultySlides, {TRUE})
SpecFaults == Init /\ [][NextFaults]_vars

\* The JobManager called directly: one job is created and update_progress is
\* called with percents from below 0 to above 100.
NextProgress ==
    \/ \E ms \in MaxSlidesChoices(StoreDeck), gv \in BOOLEAN, gm \in BOOLEAN :
          create_job(1, max_jobs, ms, gv, gm)
    \/ \E p \in (0 - MaxOver)..(100 + MaxOver) : update_progress_call(1, p)
    \/ notify_start
SpecProgress == Init /\ [][NextProgress]_vars

\* The JobManager called directly: SlideJobs job is created,
\* start_processing gets the slide numbers of a deck of up to FaultyDeck
\* slides, and update_slide_progress is called for stored and unknown jobs
\* and for slide numbers in and beyond the deck.
SlideJobs == 1
SlideArgStates == {"None", COMPLETED}
SlideArgErrors == {"None", "LLMError"}

NextSlide ==
    \/ \E ms \in MaxSlidesChoices(StoreDeck) :
          create_job(SlideJobs, max_jobs, ms, FALSE, FALSE)
    \/ \E job_id \in 1..SlideJobs, deck \in Decks(FaultyDeck, MaxBlank) :
          start_processing_call(job_id, slide_numbers_of(deck, FaultyDeck))
    \/ \E job_id \in 1..(SlideJobs + 1), slide_number \in 1..(FaultyDeck + 1),
          narration \in SlideArgStates, mcq \in SlideArgStates,
          video \in SlideArgStates, error \in SlideArgErrors :
          update_slide_progress_call(job_id, slide_number, narration, mcq, video, error)
    \/ notify_start
SpecSlide == Init /\ [][NextSlide]_vars

\* The JobManager called directly: UnsubJobs jobs are created, callbacks
\* subscribe to them and unsubscribe, and update_progress calls make the
\* broadcasts.
UnsubJobs == 2
UnsubCalls == 2
UnsubPercent == 50

NextUnsub ==
    \/ \E ms \in MaxSlidesChoices(StoreDeck) :
          create_job(UnsubJobs, max_jobs, ms, FALSE, FALSE)
    \/ \E j \in 1..UnsubJobs :
          published < UnsubCalls /\ update_progress_call(j, UnsubPercent)
    \/ \E j \in 1..UnsubJobs, cb \in Callbacks : subscribe(j, cb)
    \/ \E j \in 1..UnsubJobs, cb \in Callbacks : unsubscribe(j, cb)
    \/ notify_start
    \/ notify_deliver(MaxSlow)
    \/ notify_resume
SpecUnsub == Init /\ [][NextUnsub]_vars

\* One job with quiz and video over decks of up to StoreDeck slides, and a
\* client that asks for its result at any time.
NextRead ==
    \/ Step(1, max_jobs, StoreDeck, MaxBlank, MaxFaults, {TRUE})
    \/ get_job_result_call(1)
SpecRead == Init /\ [][NextRead]_vars

\* One job without quiz and video over decks of up to ObserveDeck slides,
\* with complete_job taken one store operation at a time.
NextLocked ==
    \/ \E ms \in MaxSlidesChoices(ObserveDeck) : create_job(1, max_jobs, ms, FALSE, FALSE)
    \/ cancel_job(1)
    \/ run_start(1)
    \/ parse_error(1, MaxFaults)
    \/ parse_empty(1, ObserveDeck, MaxBlank)
    \/ parse_slides(1, ObserveDeck, MaxBlank)
    \/ check_cancellation(1)
    \/ slide_base(1)
    \/ narr_begin(1)
    \/ narr_prog(1)
    \/ narr_return(1, MaxFaults)
    \/ narr_done(1)
    \/ slide_except(1)
    \/ run_complete_update(1)
    \/ run_complete_set_result(1)
    \/ notify_start
SpecLocked == Init /\ [][NextLocked]_vars

\* One job without quiz and video, decks of up to NotifyDeck slides, and
\* callbacks that subscribe and unsubscribe while it runs.
NextNotify ==
    \/ \E ms \in MaxSlidesChoices(NotifyDeck) : create_job(1, max_jobs, ms, FALSE, FALSE)
    \/ cancel_job(1)
    \/ PipelineNarration(1, NotifyDeck, 0, MaxFaults)
    \/ \E cb \in Callbacks : subscribe(1, cb)
    \/ \E cb \in Callbacks : unsubscribe(1, cb)
    \/ notify_start
    \/ notify_deliver(MaxSlow)
    \/ notify_resume
SpecNotify == Init /\ [][NextNotify]_vars

\* Subscribers that stay: one run over decks of up to ObserveDeck slides.
NextObserve ==
    \/ \E ms \in MaxSlidesChoices(ObserveDeck) : create_job(1, max_jobs, ms, FALSE, FALSE)
    \/ PipelineNarration(1, ObserveDeck, 0, MaxFaults)
    \/ \E cb \in Callbacks : subscribe(1, cb)
    \/ notify_start
    \/ notify_deliver(MaxSlow)
    \/ notify_resume

SpecObserve == Init /\ [][NextObserve]_vars

\* ------------------------------------------------------------------ claims

Range(s) == {s[i] : i \in 1..Len(s)}
Stored(j) == j \in DOMAIN store.jobs
StoredAfter(j) == j \in DOMAIN store'.jobs
ActiveJobs(st) == {i \in DOMAIN st.jobs : st.jobs[i].status \in Active}

\* C1: once a stored job's state is Completed, Failed or Cancelled, no later
\* call changes it to another value.
C1_TerminalFinal ==
    [][\A j \in Ids :
         (Stored(j) /\ StoredAfter(j) /\ store.jobs[j].status \in Terminal)
            => store'.jobs[j].status = store.jobs[j].status]_vars

\* C2: while a job has not reached a terminal state, no step lowers its
\* stored progress.
C2_ProgressMonotone ==
    [][\A j \in Ids :
         (Stored(j) /\ StoredAfter(j) /\ store.jobs[j].status \notin Terminal)
            => store'.jobs[j].progress >= store.jobs[j].progress]_vars

\* C3: once run_processing_job has returned, the job's stored state is
\* Completed, Failed or Cancelled.
C3_RunEndsTerminal ==
    \A j \in Ids :
        (task[j].pc = "done" /\ Stored(j)) => store.jobs[j].status \in Terminal

\* C4: cancel_job on a Pending or Processing job returns True, sets the
\* cancellation flag (is_cancelled holds, check_cancellation raises), and
\* get_job_status in the state it leaves reports Cancelled.
C4_CancelActive ==
    [][ret'.op = "cancel_job" =>
         LET j == ret'.job_id IN
         (Stored(j) /\ store.jobs[j].status \in Active) =>
            /\ ret'.raised = "None"
            /\ ret'.value = TRUE
            /\ is_cancelled(cancel_flags', j)
            /\ j \in cancel_flags'
            /\ get_job_status(store', j).raised = "None"
            /\ get_job_status(store', j).value.status = CANCELLED]_vars

C4_Witness ==
    /\ ret.op = "cancel_job"
    /\ ret.raised = "None"
    /\ ret.value = TRUE
    /\ task[ret.job_id].pc = "tts_await"
    /\ store.jobs[ret.job_id].status = CANCELLED

\* Positions from which the pipeline starts or ends a stage of a slide.
StagePcs ==
    {"base", "narr_begin", "narr_prog", "narr_await", "narr_done",
     "mcq_begin", "mcq_prog", "mcq_await", "mcq_retry_await", "mcq_done",
     "video_begin", "video_prog", "tts_await", "image_await", "video_await",
     "video_done", "except"}

\* C5: when cancel_job succeeded while slide i was in flight, (a) the run
\* is never cut short inside slide i: it leaves a stage position only for the
\* next position of the code, never for the end of the run; (b) after slide i
\* the pipeline is at no stage position of a later slide; and (c) no step
\* changes slides_progress once slide i is over.
C5_CooperativeCancel ==
    [][\A j \in Ids :
         cancel_at[j] >= 0 =>
            /\ (task[j].pc \in StagePcs /\ task[j].idx = cancel_at[j])
                  => task'[j].pc # "done"
            /\ task'[j].idx > cancel_at[j] => task'[j].pc \notin StagePcs
            /\ (task[j].idx > cancel_at[j] /\ Stored(j) /\ StoredAfter(j))
                  => store'.jobs[j].slides_progress = store.jobs[j].slides_progress]_vars

C5_Witness ==
    \E j \in Ids :
        /\ cancel_at[j] = 0
        /\ task[j].pc = "done"
        /\ task[j].idx = 1
        /\ Len(task[j].slides) >= 2
        /\ Stored(j)
        /\ store.jobs[j].slides_progress[1].video = COMPLETED
        /\ store.jobs[j].slides_progress[2] = SlideProgress(task[j].slides[2])

\* C6: create_job raises TooManyJobsError exactly when the number of Pending
\* and Processing jobs is at least max_concurrent_jobs, and then leaves the
\* store as it was; otherwise it returns an id never used before and adds
\* exactly one record, in state Pending with progress 0, under that id.
C6_CreateJob ==
    [][ret'.op = "create_job" =>
         IF Cardinality(ActiveJobs(store)) >= max_concurrent_jobs
         THEN /\ ret'.raised = "TooManyJobsError"
              /\ store' = store
         ELSE /\ ret'.raised = "None"
              /\ task[ret'.job_id].pc = "none"
              /\ ~Stored(ret'.job_id)
              /\ ret'.job_id \notin DOMAIN store.results
              /\ DOMAIN store'.jobs \ DOMAIN store.jobs = {ret'.job_id}
              /\ store'.jobs[ret'.job_id].status = PENDING
              /\ store'.jobs[ret'.job_id].progress = 0
              /\ store'.jobs[ret'.job_id].job_id = ret'.job_id]_vars

C6_Witness ==
    /\ ret.op = "create_job"
    /\ ret.raised = "None"
    /\ ret.job_id = MaxIds
    /\ Cardinality(ActiveJobs(store)) = max_concurrent_jobs

\* C7: the number of Pending and Processing jobs never exceeds
\* max_concurrent_jobs.
C7_AdmissionLimit ==
    Cardinality(ActiveJobs(store)) <= max_concurrent_jobs

\* C8: a job that has terminated never counts as active again, so the slot
\* it gave back stays free for a new create_job.
C8_TerminatedStaysInactive ==
    [][\A j \in Ids :
         (Stored(j) /\ StoredAfter(j) /\ store.jobs[j].status \in Terminal)
            => store'.jobs[j].status \notin Active]_vars

\* C9: the store never holds more than its capacity; only a successful
\* create changes the stored ids or their order; at capacity it removes the
\* oldest-inserted job (the smallest id) with its result and nothing else,
\* below capacity it removes nothing; the new id goes last.
C9_FifoEviction ==
    [][LET o == store.order
           new == ret'.job_id
       IN
       /\ Len(store'.order) <= max_jobs
       /\ Range(store'.order) = DOMAIN store'.jobs
       /\ (store'.order # o \/ DOMAIN store'.jobs # DOMAIN store.jobs) =>
            /\ ret'.op = "create_job"
            /\ ret'.raised = "None"
            /\ IF Len(o) = max_jobs
               THEN /\ \A i \in DOMAIN store.jobs : Head(o) <= i
                    /\ store'.order = Append(Tail(o), new)
                    /\ DOMAIN store'.results = DOMAIN store.results \ {Head(o)}
                    /\ \A i \in DOMAIN store.jobs \ {Head(o)} :
                          store'.jobs[i] = store.jobs[i]
                    /\ \A i \in DOMAIN store'.results :
                          store'.results[i] = store.results[i]
               ELSE /\ store'.order = Append(o, new)
                    /\ store'.results = store.results
                    /\ \A i \in DOMAIN store.jobs : store'.jobs[i] = store.jobs[i]]_vars

\* The third upload evicted job 1, which had completed and had a result.
C9_Witness ==
    /\ ret.op = "create_job"
    /\ ret.raised = "None"
    /\ ret.job_id = max_jobs + 1
    /\ store.order = [i \in 1..max_jobs |-> i + 1]
    /\ task[1].pc = "done"
    /\ 1 \notin cancel_flags
    /\ faults = 0
    /\ 1 \notin DOMAIN store.results
    /\ 2 \in DOMAIN store.results

\* C10: get_job_result returns a result only for a stored job in state
\* Completed; for an id not in the store it raises not-found, and for a
\* stored job in another state it raises not-completed.
C10_ResultOnlyWhenCompleted ==
    \A j \in Ids :
        LET r == get_job_result(store, j) IN
        IF ~Stored(j) THEN r.raised = "JobNotFoundError"
        ELSE IF store.jobs[j].status # COMPLETED
        THEN r.raised = "JobNotFoundError: not completed yet"
        ELSE r.raised = "None"

\* Slide k's narration call raised: slide_result.narration was never set.
NarrationFailed(j, k) == task[j].results[k].narration = "None"

\* Every collaborator of slide k returned a usable value.
SlideSucceeded(j, k) ==
    LET r == task[j].results[k] IN
    /\ r.narration = "text"
    /\ r.qa = "{}"
    /\ r.audio_path = "audio" /\ r.image_path = "image" /\ r.video_path = "video"

\* C11: a run with quiz and video, not cancelled, in which each slide either
\* had its narration call raise or had every collaborator succeed, ends with
\* every slide processed and the job Completed; each slide whose narration
\* raised has narration Failed and an error text, every other slide has
\* narration, quiz and video Completed.
C11_NarrationFailureIsolated ==
    \A j \in Ids :
        (/\ task[j].pc = "done" /\ Stored(j) /\ j \notin cancel_flags
         /\ task[j].slides # <<>>
         /\ task[j].generate_video /\ task[j].generate_mcqs
         /\ \A k \in DOMAIN task[j].results :
               NarrationFailed(j, k) \/ SlideSucceeded(j, k))
        => /\ store.jobs[j].status = COMPLETED
           /\ Len(task[j].results) = Len(task[j].slides)
           /\ Len(store.jobs[j].slides_progress) = Len(task[j].slides)
           /\ \A k \in DOMAIN task[j].results :
                 LET sp == store.jobs[j].slides_progress[k] IN
                 /\ sp.slide_number = task[j].slides[k]
                 /\ IF NarrationFailed(j, k)
                    THEN sp.narration = FAILED /\ sp.error # "None"
                    ELSE /\ sp.narration = COMPLETED /\ sp.mcq = COMPLETED
                         /\ sp.video = COMPLETED /\ sp.error = "None"

\* A deck of three slides whose second narration failed.
C11_Witness ==
    \E j \in Ids :
        /\ task[j].pc = "done" /\ Stored(j) /\ j \notin cancel_flags
        /\ store.jobs[j].status = COMPLETED
        /\ Len(task[j].results) = 3
        /\ SlideSucceeded(j, 1) /\ NarrationFailed(j, 2) /\ SlideSucceeded(j, 3)
        /\ store.jobs[j].slides_progress[2].narration = FAILED
        /\ store.jobs[j].slides_progress[3].video = COMPLETED

\* C12: a slide's quiz generator is called at most twice; the second call is
\* made exactly when the first output had no valid question or was in the
\* wrong language; when the retry's output is in the wrong language again,
\* the validated set becomes {"questions": []}, nothing is raised, the quiz
\* sub-state becomes Completed with the slide's error untouched and an empty
\* quiz result, and the slide goes on to its video stage.
C12_QuizRetryThenEmpty ==
    [][\A j \in Ids :
         LET t == task[j]  u == task'[j] IN
         /\ u.mcq_calls <= 2
         /\ (t.pc = "mcq_await" /\ u.pc # "mcq_await") =>
               /\ u.mcq_calls = 1
               /\ (u.pc = "mcq_retry_await") <=> (u.qa_raw \in {"empty", "wrong_language"})
         /\ u.mcq_calls = 2 =>
               (t.mcq_calls = 2 \/ (t.pc = "mcq_retry_await" /\ t.mcq_calls = 1))
         /\ (t.pc = "mcq_retry_await" /\ u.pc # "mcq_retry_await"
                /\ u.qa_raw = "wrong_language") =>
               /\ u.pc = "mcq_done"
               /\ u.validated_qa = "empty"
               /\ u.error = "None"
         /\ (t.pc = "mcq_done" /\ u.pc # "mcq_done" /\ t.mcq_calls = 2
                /\ t.qa_raw = "wrong_language" /\ Stored(j)) =>
               LET sp == store'.jobs[j].slides_progress[t.idx + 1] IN
               /\ sp.mcq = COMPLETED
               /\ sp.error = "None"
               /\ store'.jobs[j].status = store.jobs[j].status
               /\ (t.generate_video /\ Truthy(t.narration)) =>
                     (u.pc = "video_begin" /\ u.qa = "{}" /\ u.idx = t.idx)]_vars

\* The retry came back in the wrong language and the slide is at its video
\* stage with the quiz Completed.
C12_Witness ==
    \E j \in Ids :
        /\ task[j].pc = "video_begin"
        /\ task[j].mcq_calls = 2
        /\ task[j].qa_raw = "wrong_language"
        /\ task[j].validated_qa = "empty"
        /\ task[j].qa = "{}"
        /\ Stored(j)
        /\ store.jobs[j].slides_progress[task[j].idx + 1].mcq = COMPLETED
        /\ store.jobs[j].slides_progress[task[j].idx + 1].error = "None"

\* Positions at which a collaborator has been or is about to be invoked.
CollaboratorPcs == StagePcs \cup {"check", "stitch_begin", "stitch_await"}

\* C13: when no slide is left after the has-text filter and the truncation,
\* the run goes from parsing straight to its end without any JobManager call
\* (start_processing is not called) and without any collaborator position;
\* complete_job then leaves the job Completed, without error, with no slide
\* record and with a result whose slide list is empty.
C13_EmptyDeck ==
    [][\A j \in Ids :
         LET t == task[j]  u == task'[j] IN
         /\ (t.pc = "parse" /\ u.pc = "complete") =>
               /\ u.slides = <<>>
               /\ store' = store
               /\ notify_tasks' = notify_tasks
               /\ published' = published
         /\ u.slides = <<>> => u.pc \notin CollaboratorPcs
         /\ (t.pc = "complete" /\ t.slides = <<>> /\ u.pc # "complete") =>
               /\ u.pc = "done"
               /\ u.results = <<>> /\ u.mcq_calls = 0 /\ u.video_paths = 0
               /\ Stored(j) =>
                     /\ StoredAfter(j)
                     /\ store'.jobs[j].status = COMPLETED
                     /\ store'.jobs[j].error = "None"
                     /\ store'.jobs[j].total_slides = 0
                     /\ store'.jobs[j].slides_progress = <<>>
                     /\ store'.results[j].slides = <<>>
                     /\ store'.results[j].final_video_path = "None"]_vars

C13_Witness ==
    \E j \in Ids :
        /\ task[j].pc = "done"
        /\ task[j].slides = <<>>
        /\ Stored(j)
        /\ j \notin cancel_flags
        /\ store.jobs[j].status = COMPLETED
        /\ store.jobs[j].slides_progress = <<>>
        /\ j \in DOMAIN store.results
        /\ store.results[j].slides = <<>>

\* C14: when parse_ppt raises, the run is over in one step: fail_job leaves
\* the stored job Failed with the error text, exactly one task is created, an
\* `error` broadcast for that job with that text, not yet started, and no
\* result is stored; a Failed job has an error text and no result.
C14_WholeRunFailure ==
    [][\A j \in Ids :
         /\ (task[j].pc = "parse" /\ task'[j].pc = "done") =>
               /\ published' = published + 1
               /\ Len(notify_tasks') = Len(notify_tasks) + 1
               /\ SubSeq(notify_tasks', 1, Len(notify_tasks)) = notify_tasks
               /\ LET new == notify_tasks'[Len(notify_tasks')] IN
                  /\ new.coro = notify_error(j, "PPTParseError")
                  /\ new.pc = "ready"
               /\ store'.results = store.results
               /\ Stored(j) =>
                     /\ store'.jobs[j].status = FAILED
                     /\ store'.jobs[j].error = "PPTParseError"
         /\ (StoredAfter(j) /\ store'.jobs[j].status = FAILED) =>
               /\ store'.jobs[j].error # "None"
               /\ j \notin DOMAIN store'.results]_vars

C14_Witness ==
    \E j \in Ids :
        /\ task[j].pc = "done"
        /\ Stored(j)
        /\ store.jobs[j].status = FAILED
        /\ store.jobs[j].error = "PPTParseError"
        /\ j \notin DOMAIN store.results
        /\ notify_tasks # <<>>
        /\ notify_tasks[Len(notify_tasks)].coro.type = "error"

\* C15: whatever percent update_progress is called with, the stored progress
\* lies in 0..100, and get_job_status builds a status record from it.
C15_ProgressClamped ==
    \A j \in Ids :
        Stored(j) =>
            /\ store.jobs[j].progress \in 0..100
            /\ get_job_status(store, j).raised = "None"

\* The broadcast tasks that read the callback list in this step.
Begun(k) ==
    /\ k \in DOMAIN notify_tasks'
    /\ notify_tasks'[k].pc = "deliver"
    /\ \E h \in DOMAIN notify_tasks :
          notify_tasks[h].seq = notify_tasks'[k].seq /\ notify_tasks[h].pc = "ready"

\* C16: a broadcast that starts after a delivery to a callback has raised
\* (and the callback has not subscribed again) does not find that callback in
\* the job's list, so no delivery to it is attempted.
C16_FailedSubscriberDropped ==
    [][\A k \in DOMAIN notify_tasks' :
         Begun(k) =>
            \A cb \in Range(notify_tasks'[k].callbacks) :
               <<notify_tasks'[k].coro.job_id, cb>> \notin raised]_vars

Count(seq, x) == Cardinality({i \in DOMAIN seq : seq[i] = x})

\* C17: a callback is registered at most once per job however often it
\* subscribes, so no callback is called twice with the same broadcast; and a
\* step that shortens a job's list removes one callback's registrations and
\* nothing else (an unsubscribe of a callback that is not registered leaves
\* the list as it was).
C17_SubscribeIdempotent ==
    [][/\ \A j \in Ids, cb \in Callbacks : Count(websocket_callbacks'[j], cb) <= 1
       /\ \A cb \in Callbacks :
             \A a, b \in DOMAIN received'[cb] :
                (a # b) => received'[cb][a].seq # received'[cb][b].seq
       /\ \A j \in Ids :
             websocket_callbacks'[j] # websocket_callbacks[j] =>
                \/ \E cb \in Callbacks :
                      websocket_callbacks'[j] = Append(websocket_callbacks[j], cb)
                \/ \E cb \in Range(websocket_callbacks[j]) :
                      websocket_callbacks'[j] =
                         SelectSeq(websocket_callbacks[j], LAMBDA x : x # cb)]_vars

\* C18: every callback is called with a job's broadcasts in the order of the
\* calls that triggered them.
C18_DeliveryOrder ==
    \A cb \in Callbacks :
        \A a, b \in DOMAIN received[cb] :
            (a < b /\ received[cb][a].job_id = received[cb][b].job_id)
               => received[cb][a].seq <= received[cb][b].seq

\* C19: in what a callback has been called with, the progress values of a
\* job's `progress` messages that precede its first `completed` or `error`
\* message never decrease.
C19_ObservedProgressMonotone ==
    \A cb \in Callbacks :
        \A a, b \in DOMAIN received[cb] :
            (/\ a < b
             /\ received[cb][a].job_id = received[cb][b].job_id
             /\ received[cb][a].type = "progress"
             /\ received[cb][b].type = "progress"
             /\ \A c \in 1..b : received[cb][c].type = "progress")
               => received[cb][a].progress <= received[cb][b].progress

\* C20: a step that changes a stored job's record is a mutating call, and it
\* creates one broadcast task for that job, which has not started when the
\* call returns.
C20_EveryMutationBroadcasts ==
    [][\A j \in Ids :
         (Stored(j) /\ StoredAfter(j) /\ store'.jobs[j] # store.jobs[j]) =>
            /\ published' = published + 1
            /\ \E k \in DOMAIN notify_tasks' :
                  /\ notify_tasks'[k].seq = published'
                  /\ notify_tasks'[k].coro.job_id = j
                  /\ notify_tasks'[k].pc = "ready"]_vars

\* C21: cancel_job on a stored job that is Completed, Failed or Cancelled
\* returns False, raises nothing and leaves the store and the cancellation
\* flags as they were; cancel_job on an id that is not stored raises
\* JobNotFoundError and leaves the store and the flags as they were.
C21_CancelTerminalOrUnknown ==
    [][ret'.op = "cancel_job" =>
         LET j == ret'.job_id IN
         /\ ~Stored(j) =>
               /\ ret'.raised = "JobNotFoundError"
               /\ store' = store
               /\ cancel_flags' = cancel_flags
               /\ ~is_cancelled(cancel_flags', j)
         /\ (Stored(j) /\ store.jobs[j].status \in Terminal) =>
               /\ ret'.raised = "None"
               /\ ret'.value = FALSE
               /\ store' = store
               /\ cancel_flags' = cancel_flags]_vars

\* cancel_job has just returned False for a job that had completed.
C21_Witness ==
    /\ ret.op = "cancel_job"
    /\ ret.raised = "None"
    /\ ret.value = FALSE
    /\ store.jobs[ret.job_id].status = COMPLETED
    /\ ret.job_id \notin cancel_flags

\* C22: a stored job is Completed, Failed or Cancelled exactly when its
\* completed_at is set, and a completed_at that is set is never changed.
C22_CompletedAtOnce ==
    [][\A j \in Ids :
         StoredAfter(j) =>
            /\ (store'.jobs[j].status \in Terminal) <=>
                   (store'.jobs[j].completed_at # "None")
            /\ (Stored(j) /\ store.jobs[j].completed_at # "None") =>
                   store'.jobs[j].completed_at = store.jobs[j].completed_at]_vars

\* The changes a slide sub-state may undergo.
SubStateMoves ==
    {<<PENDING, PROCESSING>>, <<PROCESSING, COMPLETED>>,
     <<PENDING, FAILED>>, <<PROCESSING, FAILED>>}

\* C23: whenever a step changes the narration, quiz or video sub-state of a
\* slide record, the change is Pending to Processing, Processing to
\* Completed, or Pending or Processing to Failed; so a sub-state that is
\* Completed or Failed is never changed again.
C23_SubStatesNeverRegress ==
    [][\A j \in Ids :
         (Stored(j) /\ StoredAfter(j)) =>
            LET old == store.jobs[j].slides_progress
                new == store'.jobs[j].slides_progress
            IN \A k \in DOMAIN old \cap DOMAIN new :
                  /\ old[k].narration # new[k].narration =>
                         <<old[k].narration, new[k].narration>> \in SubStateMoves
                  /\ old[k].mcq # new[k].mcq =>
                         <<old[k].mcq, new[k].mcq>> \in SubStateMoves
                  /\ old[k].video # new[k].video =>
                         <<old[k].video, new[k].video>> \in SubStateMoves]_vars

\* C24: a stored job has an error text only when its state is Failed.
C24_ErrorOnlyOnFailed ==
    \A j \in Ids :
        (Stored(j) /\ store.jobs[j].error # "None") => store.jobs[j].status = FAILED

\* A job cancelled while queued, whose run then failed in parse_ppt.
C24_Witness ==
    \E j \in Ids :
        /\ Stored(j)
        /\ j \in cancel_flags
        /\ task[j].pc = "done"
        /\ store.jobs[j].status = FAILED
        /\ store.jobs[j].error = "PPTParseError"

\* C25: a get_job_result call changes neither the job records nor the stored
\* results; and when a get_job_result call on a Completed job follows a
\* get_job_result call for the same job with no step in between, it returns
\* what that call returned.
C25_GetResultIdempotent ==
    [][ret'.op = "get_job_result" =>
         /\ store' = store
         /\ LET j == ret'.job_id IN
            (Stored(j) /\ store.jobs[j].status = COMPLETED
                /\ ret'.previous # NoOutcome) =>
               /\ ret'.outcome = ret'.previous
               /\ ret'.outcome.raised = "None"]_vars

\* The second of two calls in a row on a completed job gave the stored result.
C25_Witness ==
    /\ ret.op = "get_job_result"
    /\ ret.previous # NoOutcome
    /\ ret.outcome.raised = "None"
    /\ Stored(ret.job_id)
    /\ store.jobs[ret.job_id].status = COMPLETED
    /\ ret.outcome.value = store.results[ret.job_id]
    /\ ret.outcome.value.slides # <<>>

\* C26: for every limit from 0 on, list_jobs(limit) has min(limit, number of
\* stored jobs) entries: the jobs stored last, the newest first.
C26_ListRecent ==
    \A limit \in 0..MaxLimit :
        LET r == list_jobs(store, limit)
            n == Len(store.order)
        IN /\ Len(r) = Min(limit, n)
           /\ \A i \in 1..Len(r) : r[i] = store.order[n + 1 - i]

\* C27: the step of the slide-boundary handler leaves every sub-state of the
\* slide that was Completed as it is, sets every other sub-state of the slide
\* to Failed, stores the error text on the slide record, and takes the loop
\* to the next slide (or past the loop after the last slide).
C27_SlideBoundaryRecovery ==
    [][\A j \in Ids :
         (task[j].pc = "except" /\ task'[j].pc # "except"
             /\ Stored(j) /\ StoredAfter(j)) =>
            LET k   == task[j].idx + 1
                old == store.jobs[j].slides_progress[k]
                new == store'.jobs[j].slides_progress[k]
            IN /\ new.narration = IF old.narration = COMPLETED THEN COMPLETED ELSE FAILED
               /\ new.mcq = IF old.mcq = COMPLETED THEN COMPLETED ELSE FAILED
               /\ new.video = IF old.video = COMPLETED THEN COMPLETED ELSE FAILED
               /\ new.error = task[j].error
               /\ new.error # "None"
               /\ task'[j].idx = task[j].idx + 1
               /\ Len(task'[j].results) = Len(task[j].results) + 1
               /\ task'[j].pc \in {"check", "stitch_begin", "complete"}
               /\ store'.jobs[j].status = store.jobs[j].status]_vars

\* Positions whose step calls update_progress with a slide-phase value.
SlideProgressPcs == {"base", "narr_prog", "mcq_prog", "video_prog"}

\* C28: every value the pipeline stores with update_progress while slides
\* are being processed (base, base + 5, base + 10, base + 15) lies in 10..90.
C28_SlideProgressBand ==
    [][\A j \in Ids :
         (task[j].pc \in SlideProgressPcs /\ task'[j].pc # task[j].pc
             /\ Stored(j) /\ StoredAfter(j)) =>
            store'.jobs[j].progress \in 10..90]_vars

\* The run of job j ended in check_cancellation: it is over with slides left.
CancelledRun(j) ==
    task[j].pc = "done" /\ Len(task[j].results) < Len(task[j].slides)

\* C29: the step in which check_cancellation raises is taken only with the
\* flag set and makes no JobManager call: the store is left as it was and no
\* broadcast task is created; and once the run has ended that way, its locals
\* never change again, no call other than cancel_job changes the job's
\* record, no broadcast task is created for the job, and the job has no
\* stored result.
C29_CancelledRunMutatesNothing ==
    [][\A j \in Ids :
         /\ (task[j].pc = "check" /\ task'[j].pc = "done") =>
               /\ is_cancelled(cancel_flags, j)
               /\ store' = store
               /\ published' = published
               /\ notify_tasks' = notify_tasks
               /\ j \notin DOMAIN store'.results
         /\ CancelledRun(j) =>
               /\ task'[j] = task[j]
               /\ j \notin DOMAIN store'.results
               /\ \A k \in DOMAIN notify_tasks' :
                     notify_tasks'[k].coro.job_id = j =>
                        /\ notify_tasks'[k].seq <= published
                        /\ notify_tasks'[k].coro.type = "progress"
               /\ (Stored(j) /\ StoredAfter(j) /\ ret'.op # "cancel_job") =>
                     store'.jobs[j] = store.jobs[j]]_vars

\* A run cancelled during its second slide: it ended at the head of the
\* third with two slide results and nothing stored.
C29_Witness ==
    \E j \in Ids :
        /\ CancelledRun(j)
        /\ cancel_at[j] = 1
        /\ Len(task[j].results) = 2
        /\ Stored(j)
        /\ store.jobs[j].status = CANCELLED
        /\ j \notin DOMAIN store.results

\* C30: a step never removes a Pending or Processing job from the store:
\* get_job_status still finds every job that was stored and active before
\* the step.
C30_EvictionSparesActive ==
    [][\A j \in Ids :
         (Stored(j) /\ store.jobs[j].status \in Active) =>
            /\ StoredAfter(j)
            /\ get_job_status(store', j).raised # "JobNotFoundError"]_vars

\* C31: a JobManager call for an id that is not stored leaves the store as
\* it was: a pipeline step of a job without a record changes neither the
\* records nor the results, so every stored result belongs to a stored job.
C31_AbsentJobNoOp ==
    [][/\ \A j \in Ids :
            (~Stored(j) /\ task'[j] # task[j] /\ task[j].pc # "none") =>
               store' = store
       /\ DOMAIN store'.results \subseteq DOMAIN store'.jobs]_vars

\* C32: in every state, the states between the store operations of
\* complete_job included, a stored job that is Completed has progress 100 and
\* a stored result, and get_job_result returns that result.
C32_CompletedHasResult ==
    \A j \in Ids :
        (Stored(j) /\ store.jobs[j].status = COMPLETED) =>
            /\ store.jobs[j].progress = 100
            /\ StoreHasResult(store, j)
            /\ get_job_result(store, j) =
                  [raised |-> "None", value |-> store.results[j]]

\* C33: cancel_job returns True at most once for a job: a call that returns
\* True finds the job's cancellation flag not yet set.
C33_CancelSucceedsOnce ==
    [][(ret'.op = "cancel_job" /\ ret'.raised = "None" /\ ret'.value = TRUE) =>
          ret'.job_id \notin cancel_flags]_vars

\* C34: the run goes to the stitching stage exactly when video was asked for
\* and at least one slide video was made, and otherwise straight to its end;
\* whether stitch_videos returns or raises, the run goes on to complete_job
\* without any JobManager call; when it raised, final_video_path is None in
\* the result, and complete_job leaves the job Completed.
C34_StitchBestEffort ==
    [][\A j \in Ids :
         LET t == task[j]  u == task'[j] IN
         /\ (t.pc # "stitch_begin" /\ u.pc = "stitch_begin") =>
               (u.generate_video /\ u.video_paths > 0)
         /\ (t.pc \notin {"complete", "stitch_await"} /\ u.pc = "complete") =>
               ~(u.generate_video /\ u.video_paths > 0)
         /\ (t.pc = "stitch_await" /\ u.pc # "stitch_await") =>
               /\ u.pc = "complete"
               /\ store' = store
               /\ published' = published
               /\ u.final_video_path = IF faults' = faults THEN "final" ELSE "None"
         /\ (t.pc = "complete" /\ u.pc # "complete") =>
               /\ u.pc = "done"
               /\ store'.results[j].final_video_path = t.final_video_path
               /\ (t.final_video_path # "None") =>
                     (t.generate_video /\ t.video_paths > 0)
               /\ Stored(j) => store'.jobs[j].status = COMPLETED]_vars

\* Every slide video was made, stitch_videos raised, and the job is
\* Completed with a result that has no final video.
C34_Witness ==
    \E j \in Ids :
        /\ task[j].pc = "done"
        /\ task[j].generate_video
        /\ task[j].video_paths = 2
        /\ faults = 1
        /\ j \notin cancel_flags
        /\ Stored(j)
        /\ store.jobs[j].status = COMPLETED
        /\ store.jobs[j].error = "None"
        /\ store.results[j].final_video_path = "None"
        /\ Len(store.results[j].slides) = 2

\* Positions of the per-slide video steps: speech, image, assembly.
VideoStepPcs == {"tts_await", "image_await", "video_await"}

\* C35: a run is at a per-slide video step only when video was asked for and
\* the slide has a narration text; speech comes first, the image is rendered
\* only after speech has returned its audio, and the video is assembled only
\* after the image has been rendered; and the run is at the stitching stage
\* only when every slide of the deck is over, so at no video step.
C35_VideoStepsOrdered ==
    [][\A j \in Ids :
         LET t == task[j]  u == task'[j] IN
         /\ u.pc \in VideoStepPcs =>
               (u.generate_video /\ u.narration = "text")
         /\ (u.pc = "tts_await" /\ t.pc # "tts_await") =>
               (t.pc = "video_prog" /\ u.audio_path = "None")
         /\ (u.pc = "image_await" /\ t.pc # "image_await") =>
               (t.pc = "tts_await" /\ u.audio_path = "audio" /\ u.image_path = "None")
         /\ (u.pc = "video_await" /\ t.pc # "video_await") =>
               (t.pc = "image_await" /\ u.image_path = "image" /\ u.video_path = "None")
         /\ u.pc \in {"stitch_begin", "stitch_await"} =>
               /\ u.pc \notin VideoStepPcs
               /\ u.idx = Len(u.slides)
               /\ Len(u.results) = Len(u.slides)
               /\ u.video_paths =
                     Cardinality({k \in DOMAIN u.results : u.results[k].video_path = "video"})]_vars

\* Stitching is awaited after a slide whose narration came back empty (no
\* video step for it) and a slide whose video was made.
C35_Witness ==
    \E j \in Ids :
        /\ task[j].pc = "stitch_await"
        /\ Len(task[j].results) = 2
        /\ task[j].results[1].narration = ""
        /\ task[j].results[1].audio_path = "None"
        /\ task[j].results[1].video_path = "None"
        /\ task[j].results[2].video_path = "video"
        /\ task[j].video_paths = 1

\* C36: the step that calls start_processing hands it the numbers of the
\* deck's slides with text, cut to max_slides: increasing, not necessarily
\* contiguous; it leaves the job Processing, total_slides the number of those
\* slides, and slides_progress one record per number, in that order, each
\* with narration, quiz and video Pending and no error; progress and
\* current_slide are unchanged.
C36_StartProcessing ==
    [][\A j \in Ids :
         LET t == task[j]  u == task'[j] IN
         (t.pc = "parse" /\ u.pc = "check") =>
            /\ u.slides # <<>>
            /\ Len(u.slides) <= u.max_slides
            /\ \A a, b \in DOMAIN u.slides : a < b => u.slides[a] < u.slides[b]
            /\ \A a \in DOMAIN u.slides : u.slides[a] >= a
            /\ Stored(j) =>
                  LET r == store'.jobs[j] IN
                  /\ r.status = PROCESSING
                  /\ r.total_slides = Len(u.slides)
                  /\ Len(r.slides_progress) = Len(u.slides)
                  /\ \A k \in DOMAIN u.slides :
                        r.slides_progress[k] =
                           [slide_number |-> u.slides[k], narration |-> PENDING,
                            mcq |-> PENDING, video |-> PENDING, error |-> "None"]
                  /\ r.progress = store.jobs[j].progress
                  /\ r.current_slide = store.jobs[j].current_slide]_vars

\* A deck whose second slide has no text: the records are numbered 1 and 3.
C36_Witness ==
    \E j \in Ids :
        /\ task[j].pc = "check"
        /\ task[j].idx = 0
        /\ task[j].slides = <<1, 3>>
        /\ Stored(j)
        /\ store.jobs[j].status = PROCESSING
        /\ store.jobs[j].total_slides = 2
        /\ store.jobs[j].slides_progress = <<SlideProgress(1), SlideProgress(3)>>

\* C37: a call of update_slide_progress for a stored job changes, in the
\* first record with the slide number, the supplied fields to the supplied
\* values and nothing else: the other records, the fields left out, the
\* numbers, order and length of slides_progress, the job's status, progress,
\* current_slide and total_slides, the other jobs and the results stay; with
\* no such record slides_progress stays; for a job that is not stored the
\* store stays.
C37_SlideProgressFrame ==
    [][ret'.op = "update_slide_progress" =>
            LET job_id == ret'.job_id
                slide_number == ret'.slide_number
                narration == ret'.narration
                mcq == ret'.mcq
                video == ret'.video
                error == ret'.error
            IN
            IF ~Stored(job_id) THEN store' = store
            ELSE
            LET old == store.jobs[job_id]
                new == store'.jobs[job_id]
                sps == old.slides_progress
                nps == new.slides_progress
                Kept(given, before, after) ==
                    after = IF given # "None" THEN given ELSE before
            IN
            /\ DOMAIN store'.jobs = DOMAIN store.jobs
            /\ store'.results = store.results
            /\ \A other \in DOMAIN store.jobs \ {job_id} :
                  store'.jobs[other] = store.jobs[other]
            /\ new.status = old.status
            /\ new.progress = old.progress
            /\ new.current_slide = old.current_slide
            /\ new.total_slides = old.total_slides
            /\ Len(nps) = Len(sps)
            /\ \A i \in DOMAIN sps :
                  /\ nps[i].slide_number = sps[i].slide_number
                  /\ sps[i].slide_number # slide_number => nps[i] = sps[i]
                  /\ sps[i].slide_number = slide_number =>
                        /\ Kept(narration, sps[i].narration, nps[i].narration)
                        /\ Kept(mcq, sps[i].mcq, nps[i].mcq)
                        /\ Kept(video, sps[i].video, nps[i].video)
                        /\ Kept(error, sps[i].error, nps[i].error)]_vars

\* Two calls for slide 3 of a deck whose slide 2 has no text, one with the
\* narration and one with the quiz: both are in the record, slide 1 is as
\* start_processing left it.
C37_Witness ==
    \E j \in Ids :
        /\ Stored(j)
        /\ store.jobs[j].status = PROCESSING
        /\ store.jobs[j].slides_progress =
              <<SlideProgress(1),
                [slide_number |-> 3, narration |-> COMPLETED, mcq |-> COMPLETED,
                 video |-> PENDING, error |-> "None"]>>
        /\ ret.op = "update_slide_progress"
        /\ ret.job_id = j
        /\ ret.slide_number = 3
        /\ ret.narration = "None"
        /\ ret.mcq = COMPLETED

\* The broadcast tasks inside their loop over the callbacks.
Delivering == {k \in DOMAIN notify_tasks : notify_tasks[k].pc \in {"deliver", "await"}}

\* The broadcast task is over after this step.
Over(t) == \A h \in DOMAIN notify_tasks' : notify_tasks'[h].seq # t.seq

\* C38: a step in which a delivery raises changes neither the store nor any
\* run (the call that created the broadcast task has returned long before),
\* and the broadcast goes on with the next callback of its list and the same
\* message; a broadcast is over only when every callback of its list has
\* been called with its message, whether or not some of them raised.
C38_BroadcastFailureContained ==
    [][/\ ~(raised' \subseteq raised) =>
            /\ store' = store
            /\ task' = task
            /\ cancel_flags' = cancel_flags
            /\ websocket_callbacks' = websocket_callbacks
            /\ \E k \in Delivering :
                  LET t == notify_tasks[k] IN
                  /\ raised' = raised \cup {<<t.coro.job_id, t.callbacks[t.i]>>}
                  /\ IF t.i < Len(t.callbacks)
                     THEN notify_tasks' =
                            [notify_tasks EXCEPT ![k].i = t.i + 1, ![k].pc = "deliver"]
                     ELSE Over(t)
       /\ \A k \in Delivering :
             LET t == notify_tasks[k] IN
             Over(t) =>
                \A i \in DOMAIN t.callbacks :
                   \E m \in DOMAIN received'[t.callbacks[i]] :
                      received'[t.callbacks[i]][m] = t.message]_vars

\* The first subscriber raised on the only message it got; the second
\* subscriber got the same message, and the run goes on.
C38_Witness ==
    /\ websocket_callbacks[1] = <<1, 2>>
    /\ raised = {<<1, 1>>}
    /\ Len(received[1]) = 1
    /\ Len(received[2]) = 1
    /\ received[2][1] = received[1][1]
    /\ Delivering = {}
    /\ Stored(1)
    /\ store.jobs[1].status = PROCESSING

\* C39: a step that takes a callback out of a job's list takes out every
\* registration of it and leaves the rest of that list, the lists of the other
\* jobs, the messages received and the lists the broadcasts in progress are
\* going through as they were; a broadcast that starts reads the job's list
\* as it is then; so a callback that is not in the job's list is only called
\* by a broadcast whose list was replaced while it was suspended.
C39_UnsubscribeStops ==
    [][/\ \A j \in Ids :
             Len(websocket_callbacks'[j]) < Len(websocket_callbacks[j]) =>
                /\ \E cb \in Callbacks :
                      websocket_callbacks'[j] =
                         SelectSeq(websocket_callbacks[j], LAMBDA c : c # cb)
                /\ \A other \in Ids \ {j} :
                      websocket_callbacks'[other] = websocket_callbacks[other]
                /\ received' = received
                /\ DOMAIN notify_tasks' = DOMAIN notify_tasks
                /\ \A k \in DOMAIN notify_tasks :
                      /\ notify_tasks'[k].callbacks = notify_tasks[k].callbacks
                      /\ notify_tasks'[k].i = notify_tasks[k].i
                      /\ notify_tasks'[k].message = notify_tasks[k].message
                      /\ notify_tasks[k].coro.job_id # j =>
                            notify_tasks'[k] = notify_tasks[k]
       /\ \A k \in DOMAIN notify_tasks' :
             Begun(k) =>
                notify_tasks'[k].callbacks =
                   websocket_callbacks'[notify_tasks'[k].coro.job_id]
       /\ \A cb \in Callbacks :
             received'[cb] # received[cb] =>
                \E k \in DOMAIN notify_tasks :
                   LET t == notify_tasks[k] IN
                   /\ t.pc = "deliver"
                   /\ t.callbacks[t.i] = cb
                   /\ received'[cb] = Append(received[cb], t.message)
                   /\ cb \notin Range(websocket_callbacks[t.coro.job_id]) => ~t.alias]_vars

\* Both callbacks got the first broadcast of job 1; the second callback was
\* taken out; the second broadcast went to the first callback alone.
C39_Witness ==
    /\ websocket_callbacks[1] = <<1>>
    /\ Len(received[1]) = 2
    /\ Len(received[2]) = 1
    /\ received[2][1] = received[1][1]
    /\ received[1][2].job_id = 1
    /\ received[1][2].seq > received[1][1].seq
    /\ notify_tasks = <<>>

====
